---- MODULE Spec2Model ----
(***************************************************************************)
(* A model of django-oauth2-capture: the two views of the authorization    *)
(* flow (initiate_oauth2, oauth2_callback), the provider factory, the      *)
(* provider adapters' authorization URL, code exchange and token refresh,  *)
(* update_token, get_valid_token, retry_with_backoff and the OAuthToken    *)
(* table with its constraints.                                             *)
(*                                                                         *)
(* Python values are modelled as follows.  A dict is a function whose      *)
(* DOMAIN is the set of keys present.  None is the string "<None>" where a *)
(* string is expected, NoTime where a datetime is expected and the empty   *)
(* tuple where a dict is expected (a dict d is then <<d>>).  An exception  *)
(* raised is a tuple of its class name and what it carries, <<>> when      *)
(* nothing is raised.  Random tokens (secrets.token_urlsafe, ShortUUID)    *)
(* are fresh values drawn from counters.  The replies of the provider's    *)
(* servers are inputs chosen by the environment.                           *)
(*                                                                         *)
(* Spec is the authorization flow, SpecRefresh the life of a stored token  *)
(* (stored by a callback, aged by the clock, asked for by                  *)
(* get_valid_token), SpecBackoff the runs of retry_with_backoff over its   *)
(* arguments.                                                              *)
(***************************************************************************)
EXTENDS Integers, Sequences, FiniteSets, TLC

VARIABLES
    session,     \* request.session of the one browser session: a dict
    rows,        \* the OAuthToken table: a set of row records
    now,         \* timezone.now(), in seconds
    tokenSeq,    \* how many secrets.token_urlsafe values have been drawn
    slugSeq,     \* how many rows have been inserted (pk and slug source)
    last         \* the request handled last, its response and outbound calls

vars == <<session, rows, now, tokenSeq, slugSeq, last>>

----------------------------------------------------------------------------
(* Bounds of the model *)

\* number of initiate requests that draw random tokens in one behaviour
MaxTokens == 2
\* number of rows inserted in one behaviour
MaxRows == 2

----------------------------------------------------------------------------
(* Python values *)

None == "<None>"

NoTime == -1

EmptyDict == [k \in {} |-> None]

\* d.get(k): the value under k, None when k is absent
Get(d, k) == IF k \in DOMAIN d THEN d[k] ELSE None

\* d.get(k, default)
GetOr(d, k, default) == IF k \in DOMAIN d THEN d[k] ELSE default

\* d[k] = v
SetItem(d, k, v) == [x \in DOMAIN d \cup {k} |-> IF x = k THEN v ELSE d[x]]

\* bool(x) of a str or None
Truthy(x) == x # None /\ x # ""

----------------------------------------------------------------------------
(* Inputs of the model *)

\* the names the factory maps
ProviderNames == {"twitter", "linkedin", "github", "reddit", "pinterest", "facebook"}

\* names that may arrive in the URL <str:provider>
RequestNames == ProviderNames \cup {"myspace", "Twitter"}

\* names the flow's requests carry
FlowNames == {"twitter", "github", "myspace"}

\* secrets.token_urlsafe(32) as drawn by the i-th initiate request
Token(i) == "tok" \o ToString(i)

\* ?state= of a callback: absent, a value never issued, or any issued value
ForgedState == "forged"

\* ?code= of a callback
Codes == {"c1"}

\* query strings of a callback: dicts over state, code, error and
\* error_description
QueryDicts(issued) ==
    LET opt(k, vals) == {EmptyDict} \cup {[x \in {k} |-> v] : v \in vals}
        merge(a, b) == [x \in DOMAIN a \cup DOMAIN b |->
                            IF x \in DOMAIN a THEN a[x] ELSE b[x]]
        errs == {EmptyDict, [error |-> "access_denied"],
                 [error |-> "access_denied", error_description |-> "denied"]}
    IN  {merge(merge(s, c), e) :
            s \in opt("state", issued \cup {ForgedState}),
            c \in opt("code", Codes),
            e \in errs}

----------------------------------------------------------------------------
(* settings.OAUTH2_CONFIG: one entry per supported provider *)

OAUTH2_CONFIG ==
    [p \in ProviderNames |->
        [client_id |-> "id-" \o p, client_secret |-> "secret-" \o p,
         scope |-> "scope-" \o p]]

----------------------------------------------------------------------------
(* OAuth2ProviderFactory *)

\* the factory's table (a mutation of it: reddit mapped to the GitHub adapter)
providers_reddit_as_github ==
    [twitter   |-> "TwitterOAuth2Provider",
     linkedin  |-> "LinkedInOAuth2Provider",
     github    |-> "GitHubOAuth2Provider",
     reddit    |-> "GitHubOAuth2Provider",
     pinterest |-> "PinterestOAuth2Provider",
     facebook  |-> "FacebookOAuth2Provider"]

\* providers = {...} of get_provider: the class registered for each name
providers ==
    [twitter   |-> "TwitterOAuth2Provider",
     linkedin  |-> "LinkedInOAuth2Provider",
     github    |-> "GitHubOAuth2Provider",
     reddit    |-> "RedditOAuth2Provider",
     pinterest |-> "PinterestOAuth2Provider",
     facebook  |-> "FacebookOAuth2Provider"]

\* OAuth2Provider.__init__
NewProvider(cls, provider_name) ==
    [ok |-> TRUE, cls |-> cls, provider_name |-> provider_name,
     config |-> OAUTH2_CONFIG[provider_name]]

\* raise ValueError(msg)
ValueError(msg) == [ok |-> FALSE, error |-> msg]

\* OAuth2ProviderFactory.get_provider: the adapter, or the ValueError raised
get_provider(provider_name) ==
    IF provider_name \in DOMAIN providers
    THEN NewProvider(providers[provider_name], provider_name)
    ELSE ValueError(<<"Unsupported provider: ", provider_name>>)

----------------------------------------------------------------------------
(* PKCE helpers *)

\* generate_code_verifier: the random verifier of the i-th initiate request
generate_code_verifier(i) == "ver" \o ToString(i)

\* generate_code_challenge (a mutation of it: the challenge of a fixed
\* verifier)
generate_code_challenge_fixed(verifier) == "S256(" \o "challenge" \o ")"

\* generate_code_challenge: base64url(sha256(verifier)) without padding,
\* an injective function of the verifier
generate_code_challenge(verifier) == "S256(" \o verifier \o ")"

----------------------------------------------------------------------------
(* Provider adapters *)

authorize_url(prov) ==
    CASE prov.cls = "TwitterOAuth2Provider"   -> "https://twitter.com/i/oauth2/authorize"
      [] prov.cls = "LinkedInOAuth2Provider"  -> "https://www.linkedin.com/oauth/v2/authorization"
      [] prov.cls = "GitHubOAuth2Provider"    -> "https://github.com/login/oauth/authorize"
      [] prov.cls = "RedditOAuth2Provider"    -> "https://www.reddit.com/api/v1/authorize"
      [] prov.cls = "PinterestOAuth2Provider" -> "https://www.pinterest.com/oauth/"
      [] prov.cls = "FacebookOAuth2Provider"  -> "https://www.facebook.com/v19.0/dialog/oauth"

token_url(prov) ==
    CASE prov.cls = "TwitterOAuth2Provider"   -> "https://api.twitter.com/2/oauth2/token"
      [] prov.cls = "LinkedInOAuth2Provider"  -> "https://www.linkedin.com/oauth/v2/accessToken"
      [] prov.cls = "GitHubOAuth2Provider"    -> "https://github.com/login/oauth/access_token"
      [] prov.cls = "RedditOAuth2Provider"    -> "https://www.reddit.com/api/v1/access_token"
      [] prov.cls = "PinterestOAuth2Provider" -> "https://api.pinterest.com/v5/oauth/token"
      [] prov.cls = "FacebookOAuth2Provider"  -> "https://graph.facebook.com/v19.0/oauth/access_token"

user_info_url(prov) ==
    CASE prov.cls = "TwitterOAuth2Provider"   -> "https://api.twitter.com/2/users/me"
      [] prov.cls = "LinkedInOAuth2Provider"  -> "https://api.linkedin.com/v2/userinfo"
      [] prov.cls = "GitHubOAuth2Provider"    -> "https://api.github.com/user"
      [] prov.cls = "RedditOAuth2Provider"    -> "https://oauth.reddit.com/api/v1/me"
      [] prov.cls = "PinterestOAuth2Provider" -> "https://api.pinterest.com/v5/user_account"
      [] prov.cls = "FacebookOAuth2Provider"  -> "https://graph.facebook.com/v19.0/me"

\* f"{base}?{urlencode(params)}": params is the dict as the sequence of its
\* items in insertion order; the URL keeps the base and the items apart
Url(base, params) == [base |-> base, query |-> params]

\* the value of query parameter k of a URL, None when the URL has none
QueryParam(url, k) ==
    LET hits == {i \in DOMAIN url.query : url.query[i][1] = k}
    IN  IF hits = {} THEN None
        ELSE url.query[CHOOSE i \in hits : \A j \in hits : i <= j][2]

\* the parameters every adapter sends (a mutation of them: the redirect URI
\* is sent as the state)
BaseParams_wrong_state(prov, state, redirect_uri) ==
    << <<"client_id", prov.config.client_id>>,
       <<"redirect_uri", redirect_uri>>,
       <<"response_type", "code">>,
       <<"state", redirect_uri>>,
       <<"scope", prov.config.scope>> >>

\* the parameters every adapter sends (a mutation of them: no scope)
BaseParams_no_scope(prov, state, redirect_uri) ==
    << <<"client_id", prov.config.client_id>>,
       <<"redirect_uri", redirect_uri>>,
       <<"response_type", "code">>,
       <<"state", state>> >>

\* the parameters every adapter sends
BaseParams(prov, state, redirect_uri) ==
    << <<"client_id", prov.config.client_id>>,
       <<"redirect_uri", redirect_uri>>,
       <<"response_type", "code">>,
       <<"state", state>>,
       <<"scope", prov.config.scope>> >>

\* get_authorization_url of the adapter's class: the URL and the session it
\* leaves.  verifier is the value generate_code_verifier returns when called.
get_authorization_url(prov, state, redirect_uri, sess, verifier) ==
    CASE prov.cls = "TwitterOAuth2Provider" ->
            [url |-> Url(authorize_url(prov),
                         BaseParams(prov, state, redirect_uri) \o
                         << <<"code_challenge", generate_code_challenge(verifier)>>,
                            <<"code_challenge_method", "S256">> >>),
             session |-> SetItem(sess, "code_verifier", verifier)]
      [] prov.cls = "RedditOAuth2Provider" ->
            [url |-> Url(authorize_url(prov),
                         BaseParams(prov, state, redirect_uri) \o
                         << <<"duration", "permanent">> >>),
             session |-> sess]
      [] OTHER ->
            [url |-> Url(authorize_url(prov), BaseParams(prov, state, redirect_uri)),
             session |-> sess]

\* base64(client_id:client_secret) of an Authorization: Basic header
BasicCredentials(prov) ==
    "Basic " \o prov.config.client_id \o ":" \o prov.config.client_secret

\* HTTPBasicAuth(client_id, client_secret)
HTTPBasicAuth(prov) == <<prov.config.client_id, prov.config.client_secret>>

\* The HTTP request exchange_code_for_token of the adapter's class sends
ExchangeRequest(prov, code, redirect_uri, sess) ==
    LET cid == prov.config.client_id
        sec == prov.config.client_secret
        full == [grant_type |-> "authorization_code", code |-> code,
                 redirect_uri |-> redirect_uri, client_id |-> cid,
                 client_secret |-> sec]
    IN
    CASE prov.cls = "TwitterOAuth2Provider" ->
            [fn |-> "exchange_code_for_token", method |-> "POST", url |-> token_url(prov),
             data |-> [grant_type |-> "authorization_code", code |-> code,
                       redirect_uri |-> redirect_uri, client_id |-> cid,
                       client_secret |-> sec,
                       code_verifier |-> Get(sess, "code_verifier")],
             headers |-> ("Content-Type" :> "application/x-www-form-urlencoded")
                         @@ ("Authorization" :> BasicCredentials(prov)),
             auth |-> <<>>]
      [] prov.cls = "LinkedInOAuth2Provider" ->
            [fn |-> "exchange_code_for_token", method |-> "POST", url |-> token_url(prov),
             data |-> full,
             headers |-> ("Content-Type" :> "application/x-www-form-urlencoded"),
             auth |-> <<>>]
      [] prov.cls = "GitHubOAuth2Provider" ->
            [fn |-> "exchange_code_for_token", method |-> "POST", url |-> token_url(prov),
             data |-> [client_id |-> cid, client_secret |-> sec, code |-> code,
                       redirect_uri |-> redirect_uri],
             headers |-> ("Accept" :> "application/json"),
             auth |-> <<>>]
      [] prov.cls = "RedditOAuth2Provider" ->
            [fn |-> "exchange_code_for_token", method |-> "POST", url |-> token_url(prov),
             data |-> full,
             headers |-> ("User-Agent" :> "Oauth2Capture/1.0 by simplecto"),
             auth |-> HTTPBasicAuth(prov)]
      [] prov.cls = "PinterestOAuth2Provider" ->
            [fn |-> "exchange_code_for_token", method |-> "POST", url |-> token_url(prov),
             data |-> [grant_type |-> "authorization_code", code |-> code,
                       redirect_uri |-> redirect_uri],
             headers |-> ("Content-Type" :> "application/x-www-form-urlencoded"),
             auth |-> HTTPBasicAuth(prov)]
      [] prov.cls = "FacebookOAuth2Provider" ->
            [fn |-> "exchange_code_for_token", method |-> "GET", url |-> token_url(prov),
             data |-> [client_id |-> cid, client_secret |-> sec, code |-> code,
                       redirect_uri |-> redirect_uri],
             headers |-> EmptyDict,
             auth |-> <<>>]

\* The HTTP request get_user_info of the adapter's class sends
UserInfoRequest(prov, access_token) ==
    CASE prov.cls = "TwitterOAuth2Provider" ->
            [fn |-> "get_user_info", method |-> "GET", url |-> user_info_url(prov),
             data |-> ("user.fields" :> "id,name,username,profile_image_url,description"),
             headers |-> ("Authorization" :> ("Bearer " \o access_token)),
             auth |-> <<>>]
      [] prov.cls = "GitHubOAuth2Provider" ->
            [fn |-> "get_user_info", method |-> "GET", url |-> user_info_url(prov),
             data |-> EmptyDict,
             headers |-> ("Authorization" :> ("token " \o access_token)),
             auth |-> <<>>]
      [] prov.cls = "FacebookOAuth2Provider" ->
            [fn |-> "get_user_info", method |-> "GET", url |-> user_info_url(prov),
             data |-> [fields |-> "id,name,email,picture", access_token |-> access_token],
             headers |-> EmptyDict,
             auth |-> <<>>]
      [] OTHER ->
            [fn |-> "get_user_info", method |-> "GET", url |-> user_info_url(prov),
             data |-> EmptyDict,
             headers |-> ("Authorization" :> ("Bearer " \o access_token)),
             auth |-> <<>>]

\* an outbound call made by a handler: the request sent and the reply got
Call(request, reply) == [request |-> request, reply |-> reply]

----------------------------------------------------------------------------
(* The OAuthToken table *)

\* OAuthToken(provider=, user_id=, owner=) with the fields' defaults, as
\* inserted at time t with primary key id
NewRow(id, provider, user_id, owner, t) ==
    [id |-> id, provider |-> provider, slug |-> "slug" \o ToString(id),
     access_token |-> "", expires_at |-> NoTime, refresh_token |-> "",
     refresh_token_expires_at |-> NoTime, token_type |-> "", scope |-> "",
     user_id |-> user_id, owner |-> owner, created_at |-> t,
     profile_json |-> <<>>, name |-> ""]

\* the NOT NULL columns of the table hold values
NotNullOk(row) ==
    /\ row.provider # None /\ row.access_token # None
    /\ row.refresh_token # None /\ row.token_type # None
    /\ row.scope # None /\ row.user_id # None /\ row.name # None

\* unique_together (a mutation of it: the constraint dropped)
UniqueOk_dropped(table, row) == TRUE

\* unique_together = ("provider", "user_id"): no other row has the pair
UniqueOk(table, row) ==
    \A r \in table :
        r.id # row.id => ~(r.provider = row.provider /\ r.user_id = row.user_id)

\* OAuthToken.objects.get_or_create(provider=, user_id=, owner=):
\* the row found or inserted, or the IntegrityError of the insert
get_or_create(table, provider, user_id, owner, id, t) ==
    LET found == {r \in table : /\ r.provider = provider
                                /\ user_id # None /\ r.user_id = user_id
                                /\ r.owner = owner}
        fresh == NewRow(id, provider, user_id, owner, t)
    IN  IF found # {}
        THEN [ok |-> TRUE, created |-> FALSE, row |-> CHOOSE r \in found : TRUE,
              table |-> table]
        ELSE IF NotNullOk(fresh) /\ UniqueOk(table, fresh)
        THEN [ok |-> TRUE, created |-> TRUE, row |-> fresh,
              table |-> table \cup {fresh}]
        ELSE [ok |-> FALSE, created |-> FALSE, row |-> fresh, table |-> table]

\* the fields update_token assigns (a mutation of it: a response without
\* refresh_token clears the stored one)
UpdatedToken_clears_refresh(prov, oauth_token, token_data, user_info, t) ==
    [oauth_token EXCEPT
        !.access_token = token_data["access_token"],
        !.refresh_token = GetOr(token_data, "refresh_token", ""),
        !.expires_at = IF "expires_in" \in DOMAIN token_data
                       THEN t + token_data["expires_in"] ELSE @,
        !.refresh_token_expires_at =
                       IF "refresh_token_expires_in" \in DOMAIN token_data
                       THEN t + token_data["refresh_token_expires_in"] ELSE @,
        !.scope = GetOr(token_data, "scope", prov.config.scope),
        !.token_type = Get(token_data, "token_type"),
        !.profile_json = <<user_info>>,
        !.name = Get(user_info, "name")]

\* the fields update_token assigns (a mutation of it: the lifetime taken
\* for the instant of expiry)
UpdatedToken_lifetime_as_expiry(prov, oauth_token, token_data, user_info, t) ==
    [oauth_token EXCEPT
        !.access_token = token_data["access_token"],
        !.refresh_token = GetOr(token_data, "refresh_token", @),
        !.expires_at = IF "expires_in" \in DOMAIN token_data
                       THEN token_data["expires_in"] ELSE @,
        !.refresh_token_expires_at =
                       IF "refresh_token_expires_in" \in DOMAIN token_data
                       THEN t + token_data["refresh_token_expires_in"] ELSE @,
        !.scope = GetOr(token_data, "scope", prov.config.scope),
        !.token_type = Get(token_data, "token_type"),
        !.profile_json = <<user_info>>,
        !.name = Get(user_info, "name")]

\* the fields update_token assigns (a mutation of it: the token expires
\* at the instant it is stored)
UpdatedToken_expires_at_once(prov, oauth_token, token_data, user_info, t) ==
    [oauth_token EXCEPT
        !.access_token = token_data["access_token"],
        !.refresh_token = GetOr(token_data, "refresh_token", @),
        !.expires_at = IF "expires_in" \in DOMAIN token_data THEN t ELSE @,
        !.refresh_token_expires_at =
                       IF "refresh_token_expires_in" \in DOMAIN token_data
                       THEN t + token_data["refresh_token_expires_in"] ELSE @,
        !.scope = GetOr(token_data, "scope", prov.config.scope),
        !.token_type = Get(token_data, "token_type"),
        !.profile_json = <<user_info>>,
        !.name = Get(user_info, "name")]

\* the fields update_token assigns to the token object before saving it
UpdatedToken(prov, oauth_token, token_data, user_info, t) ==
    [oauth_token EXCEPT
        !.access_token = token_data["access_token"],
        !.refresh_token = GetOr(token_data, "refresh_token", @),
        !.expires_at = IF "expires_in" \in DOMAIN token_data
                       THEN t + token_data["expires_in"] ELSE @,
        !.refresh_token_expires_at =
                       IF "refresh_token_expires_in" \in DOMAIN token_data
                       THEN t + token_data["refresh_token_expires_in"] ELSE @,
        !.scope = GetOr(token_data, "scope", prov.config.scope),
        !.token_type = Get(token_data, "token_type"),
        !.profile_json = <<user_info>>,
        !.name = Get(user_info, "name")]

\* oauth_token.save() (a mutation of it: an INSERT beside the old row)
save_inserts(table, obj) ==
    IF NotNullOk(obj)
    THEN [ok |-> TRUE, table |-> table \cup {obj}]
    ELSE [ok |-> FALSE, table |-> table]

\* oauth_token.save(): the table after the UPDATE, or the IntegrityError
save(table, obj) ==
    IF NotNullOk(obj) /\ UniqueOk(table, obj)
    THEN [ok |-> TRUE, table |-> {r \in table : r.id # obj.id} \cup {obj}]
    ELSE [ok |-> FALSE, table |-> table]

\* OAuth2Provider.update_token: the token object and the table it leaves;
\* ok is FALSE when save raised
update_token(prov, table, oauth_token, token_data, user_info, t) ==
    LET obj == UpdatedToken(prov, oauth_token, token_data, user_info, t)
        saved == save(table, obj)
    IN  [ok |-> saved.ok, token |-> obj, table |-> saved.table]

----------------------------------------------------------------------------
(* HTTP responses *)

\* str.capitalize() of a provider name
capitalize(provider) ==
    CASE provider = "twitter"   -> "Twitter"
      [] provider = "linkedin"  -> "Linkedin"
      [] provider = "github"    -> "Github"
      [] provider = "reddit"    -> "Reddit"
      [] provider = "pinterest" -> "Pinterest"
      [] provider = "facebook"  -> "Facebook"

\* HttpResponse(content, status=)
HttpResponse(content, status) ==
    [status |-> status, content |-> content, location |-> Url("", <<>>)]

\* redirect(url)
redirect(url) == [status |-> 302, content |-> <<>>, location |-> url]

\* the response Django gives when the view raises
ServerError(exc) == [status |-> 500, content |-> <<exc>>, location |-> Url("", <<>>)]

\* HttpResponse(str(e), status=400) for the ValueError e of get_provider
BadRequest(err) == HttpResponse(err.error, 400)

\* the response of a callback whose token response has no access token
\* (a mutation of it: the status left at its default)
ConnectFailedOk(provider) ==
    HttpResponse(<<"Failed to connect ", capitalize(provider), " account.">>, 200)

\* the response of a callback whose token response has no access token
ConnectFailed(provider) ==
    HttpResponse(<<"Failed to connect ", capitalize(provider), " account.">>, 400)

\* the response of a callback that stored the token
Connected(provider) ==
    HttpResponse(<<capitalize(provider), " account connected successfully.">>, 200)

\* request.build_absolute_uri(f"/oauth2_capture/{provider}/callback/")
CallbackUri(provider) == "http://testserver/oauth2_capture/" \o provider \o "/callback/"

\* f"{provider}_oauth_state"
StateKey(provider) == provider \o "_oauth_state"

----------------------------------------------------------------------------
(* The views.  Each returns the response, the session and the table it     *)
(* leaves, and the outbound calls it made.                                 *)

\* oauth2_callback (a mutation of it: the row is fetched or created before
\* the token response is looked at)
oauth2_callback_creates_first(sess, table, provider, GET, user, token_data, user_info, id, t) ==
    LET prov == get_provider(provider) IN
    IF ~prov.ok
    THEN [response |-> BadRequest(prov), session |-> sess,
          rows |-> table, calls |-> <<>>, created |-> FALSE]
    ELSE
    LET code == Get(GET, "code")
        exchange == Call(ExchangeRequest(prov, code, CallbackUri(provider), sess),
                         token_data)
        access_token == Get(token_data, "access_token")
        info == Call(UserInfoRequest(prov, access_token), user_info)
        got == get_or_create(table, provider, Get(user_info, "id"), user, id, t)
    IN
    IF ~got.ok
    THEN [response |-> ServerError("IntegrityError"), session |-> sess,
          rows |-> table, calls |-> <<exchange, info>>, created |-> FALSE]
    ELSE IF Truthy(access_token)
    THEN
        LET upd == update_token(prov, got.table, got.row, token_data, user_info, t) IN
        IF ~upd.ok
        THEN [response |-> ServerError("IntegrityError"), session |-> sess,
              rows |-> upd.table, calls |-> <<exchange, info>>,
              created |-> got.created]
        ELSE [response |-> Connected(provider),
              session |-> sess, rows |-> upd.table,
              calls |-> <<exchange, info>>, created |-> got.created]
    ELSE [response |-> ConnectFailed(provider),
          session |-> sess, rows |-> got.table, calls |-> <<exchange>>,
          created |-> got.created]

\* oauth2_callback(request, provider), where request.GET = GET,
\* request.user = user and request.session = sess; token_data and user_info
\* are the replies of the provider's servers, id the next primary key.
oauth2_callback(sess, table, provider, GET, user, token_data, user_info, id, t) ==
    LET prov == get_provider(provider) IN
    IF ~prov.ok
    THEN [response |-> BadRequest(prov), session |-> sess,
          rows |-> table, calls |-> <<>>, created |-> FALSE]
    ELSE
    LET code == Get(GET, "code")
        redirect_uri == CallbackUri(provider)
        exchange == Call(ExchangeRequest(prov, code, redirect_uri, sess), token_data)
        access_token == Get(token_data, "access_token")
    IN
    IF Truthy(access_token)
    THEN
        LET info == Call(UserInfoRequest(prov, access_token), user_info)
            got == get_or_create(table, provider, Get(user_info, "id"), user, id, t)
            upd == update_token(prov, got.table, got.row, token_data, user_info, t)
        IN
        IF ~got.ok
        THEN [response |-> ServerError("IntegrityError"), session |-> sess,
              rows |-> table, calls |-> <<exchange, info>>, created |-> FALSE]
        ELSE IF ~upd.ok
        THEN [response |-> ServerError("IntegrityError"), session |-> sess,
              rows |-> upd.table, calls |-> <<exchange, info>>,
              created |-> got.created]
        ELSE [response |-> Connected(provider),
              session |-> sess, rows |-> upd.table,
              calls |-> <<exchange, info>>, created |-> got.created]
    ELSE [response |-> ConnectFailed(provider),
          session |-> sess, rows |-> table, calls |-> <<exchange>>,
          created |-> FALSE]

\* initiate_oauth2 (a mutation of it: the state is stored before the
\* provider is resolved)
initiate_oauth2_store_first(sess, provider, i) ==
    LET prov == get_provider(provider)
        stored == SetItem(sess, StateKey(provider), Token(i))
    IN
    IF ~prov.ok
    THEN [response |-> BadRequest(prov), session |-> stored, drew |-> TRUE]
    ELSE
    LET auth == get_authorization_url(prov, Token(i), CallbackUri(provider), stored,
                                      generate_code_verifier(i))
    IN  [response |-> redirect(auth.url), session |-> auth.session, drew |-> TRUE]

\* initiate_oauth2(request, provider); i numbers the random draws it makes
initiate_oauth2(sess, provider, i) ==
    LET prov == get_provider(provider) IN
    IF ~prov.ok
    THEN [response |-> BadRequest(prov), session |-> sess,
          drew |-> FALSE]
    ELSE
    LET state == Token(i)
        redirect_uri == CallbackUri(provider)
        auth == get_authorization_url(prov, state, redirect_uri, sess,
                                      generate_code_verifier(i))
    IN  [response |-> redirect(auth.url),
         session |-> SetItem(auth.session, StateKey(provider), state),
         drew |-> TRUE]

----------------------------------------------------------------------------
(* The state machine *)

NoRequest ==
    [op |-> "none", provider |-> "", GET |-> EmptyDict, user |-> "",
     response |-> HttpResponse(<<>>, 0), calls |-> <<>>]

Init ==
    /\ session = EmptyDict
    /\ rows = {}
    /\ now = 0
    /\ tokenSeq = 0
    /\ slugSeq = 0
    /\ last = NoRequest

\* GET /<provider>/connect/
Initiate(provider, user) ==
    LET r == initiate_oauth2(session, provider, tokenSeq + 1) IN
    /\ r.drew => tokenSeq < MaxTokens
    /\ session' = r.session
    /\ tokenSeq' = IF r.drew THEN tokenSeq + 1 ELSE tokenSeq
    /\ last' = [op |-> "initiate", provider |-> provider, GET |-> EmptyDict,
                user |-> user, response |-> r.response, calls |-> <<>>]
    /\ UNCHANGED <<rows, now, slugSeq>>

\* GET /<provider>/callback/?...
Callback(provider, GET, user, token_data, user_info) ==
    LET r == oauth2_callback(session, rows, provider, GET, user, token_data,
                             user_info, slugSeq + 1, now)
    IN
    /\ r.created => slugSeq < MaxRows
    /\ session' = r.session
    /\ rows' = r.rows
    /\ slugSeq' = IF r.created THEN slugSeq + 1 ELSE slugSeq
    /\ last' = [op |-> "callback", provider |-> provider, GET |-> GET,
                user |-> user, response |-> r.response, calls |-> r.calls]
    /\ UNCHANGED <<now, tokenSeq>>

\* OAuth2ProviderFactory.get_provider(name), as any caller may invoke it
GetProvider(name) ==
    /\ last' = [op |-> "get_provider", provider |-> name, GET |-> EmptyDict,
                user |-> "", response |-> HttpResponse(<<>>, 0),
                calls |-> <<Call(name, get_provider(name))>>]
    /\ UNCHANGED <<session, rows, now, tokenSeq, slugSeq>>

\* the state values issued so far
IssuedStates == {Token(i) : i \in 1..tokenSeq}

\* The callbacks of the flow: any query string, answered by a provider that
\* refuses the code or grants a token to the one signed-in user
FlowPayloads ==
    { [error |-> "invalid_grant"],
      [access_token |-> "at1", token_type |-> "bearer"] }

FlowUser == "alice"

FlowUserInfo == [id |-> "u1", name |-> "n1"]

Next ==
    \/ \E p \in FlowNames : Initiate(p, FlowUser)
    \/ \E p \in FlowNames, q \in QueryDicts(IssuedStates), td \in FlowPayloads :
          Callback(p, q, FlowUser, td, FlowUserInfo)
    \/ \E n \in RequestNames : GetProvider(n)

Spec == Init /\ [][Next]_vars

----------------------------------------------------------------------------
(* retry_with_backoff *)

\* number of responses of a response stream that are chosen freely
MaxResponses == 4
\* largest max_retries a caller passes
MaxRetries == 5

\* the default of the parameter max_retries
default_max_retries == 5

\* the default of the parameter fallback_delays
default_fallback_delays == <<5, 10, 20, 40, 60>>

\* a requests.Response: its status, its headers and the dict its body
\* decodes to
Response(status_code, headers, json) ==
    [status_code |-> status_code, headers |-> headers, json |-> json]

\* request_func as the environment answers it: the k-th invocation gets the
\* k-th response of the stream, whose last response repeats
Reply(responses, k) ==
    responses[IF k <= Len(responses) THEN k ELSE Len(responses)]

\* int(s) of a header value: the integer, or the ValueError
int(s) ==
    CASE s = "15" -> [ok |-> TRUE, value |-> 15]
      [] s = "0"  -> [ok |-> TRUE, value |-> 0]
      [] s = "-1" -> [ok |-> TRUE, value |-> -1]
      [] OTHER    -> [ok |-> FALSE, value |-> 0]

\* range(n)
range(n) == 0 .. (n - 1)

\* min(a, b)
min(a, b) == IF a <= b THEN a ELSE b

\* the loop leaves with the response (a mutation of it: only a 200 does)
Returns_only_ok(response) == response.status_code = 200

\* response.status_code != 429: the loop leaves with the response
Returns(response) == response.status_code # 429

\* the delay after a 429 (a mutation of it: the table's first value always)
Delay_first_fallback(response, attempt, fallback_delays) ==
    LET retry_after == Get(response.headers, "Retry-After")
        fallback == fallback_delays[1]
    IN  IF Truthy(retry_after) /\ int(retry_after).ok
        THEN int(retry_after).value
        ELSE fallback

\* the delay retry_with_backoff sleeps after the 429 response of iteration
\* attempt: the Retry-After header when int() takes it, the table otherwise
Delay(response, attempt, fallback_delays) ==
    LET retry_after == Get(response.headers, "Retry-After")
        fallback == fallback_delays[min(attempt, Len(fallback_delays) - 1) + 1]
    IN  IF Truthy(retry_after) /\ int(retry_after).ok
        THEN int(retry_after).value
        ELSE fallback

\* what a run does, in order: an invocation of request_func (n the status
\* it got) or a time.sleep (n the seconds)
Event(kind, n) == [kind |-> kind, n |-> n]

\* the loop of retry_with_backoff from iteration attempt on; response is
\* the variable response (<<>> while unbound), events what the run did so
\* far.  time.sleep raises ValueError for a negative delay.
RECURSIVE retry_from(_, _, _, _, _, _)
retry_from(responses, max_retries, fallback_delays, attempt, response, events) ==
    IF attempt \notin range(max_retries)
    THEN IF response = <<>>
         THEN [raised |-> <<"UnboundLocalError">>, response |-> <<>>,
               events |-> events]
         ELSE [raised |-> <<>>, response |-> response, events |-> events]
    ELSE
    LET r == Reply(responses, attempt + 1)
        called == Append(events, Event("request", r.status_code))
    IN
    IF Returns(r)
    THEN [raised |-> <<>>, response |-> <<r>>, events |-> called]
    ELSE
    LET delay == Delay(r, attempt, fallback_delays) IN
    IF delay < 0
    THEN [raised |-> <<"ValueError">>, response |-> <<>>, events |-> called]
    ELSE retry_from(responses, max_retries, fallback_delays, attempt + 1, <<r>>,
                    Append(called, Event("sleep", delay)))

\* retry_with_backoff(request_func, max_retries, fallback_delays): the
\* response returned or the exception raised, and what the run did
retry_with_backoff(responses, max_retries, fallback_delays) ==
    retry_from(responses, max_retries, fallback_delays, 0, <<>>, <<>>)

\* the statuses the invocations of request_func got, in order
Requests(events) ==
    LET reqs == SelectSeq(events, LAMBDA e : e.kind = "request")
    IN  [i \in DOMAIN reqs |-> reqs[i].n]

\* the delays slept, in order
Sleeps(events) ==
    LET sl == SelectSeq(events, LAMBDA e : e.kind = "sleep")
    IN  [i \in DOMAIN sl |-> sl[i].n]

\* sum of a sequence of numbers
RECURSIVE Sum(_)
Sum(s) == IF s = <<>> THEN 0 ELSE Head(s) + Sum(Tail(s))

\* the responses a server gives: success, a server error, and rate limiting
\* with no Retry-After header, an integer one, a text one, a negative one
ResponseKinds ==
    { Response(200, EmptyDict, EmptyDict),
      Response(500, EmptyDict, EmptyDict),
      Response(429, EmptyDict, EmptyDict),
      Response(429, "Retry-After" :> "15", EmptyDict),
      Response(429, "Retry-After" :> "not-a-number", EmptyDict),
      Response(429, "Retry-After" :> "-1", EmptyDict) }

ResponseStreams ==
    UNION { [1..n -> ResponseKinds] : n \in 1..MaxResponses }

\* the default table, and one shorter than the attempts made
DelayTables == { default_fallback_delays, <<3, 6>> }

\* a caller about to invoke retry_with_backoff with these arguments
BackoffCall(responses, max_retries, fallback_delays) ==
    [op |-> "call", responses |-> responses, max_retries |-> max_retries,
     fallback_delays |-> fallback_delays]

InitBackoff ==
    /\ session = EmptyDict
    /\ rows = {}
    /\ now = 0
    /\ tokenSeq = 0
    /\ slugSeq = 0
    /\ last \in { BackoffCall(rs, m, fd) :
                    rs \in ResponseStreams, m \in 0..MaxRetries, fd \in DelayTables }

\* the call runs to its end; the time slept passes
RetryWithBackoff ==
    /\ last.op = "call"
    /\ LET run == retry_with_backoff(last.responses, last.max_retries,
                                     last.fallback_delays)
       IN  /\ last' = [op |-> "retry_with_backoff", responses |-> last.responses,
                       max_retries |-> last.max_retries,
                       fallback_delays |-> last.fallback_delays,
                       raised |-> run.raised, response |-> run.response,
                       events |-> run.events]
           /\ now' = now + Sum(Sleeps(run.events))
    /\ UNCHANGED <<session, rows, tokenSeq, slugSeq>>

NextBackoff == RetryWithBackoff

SpecBackoff == InitBackoff /\ [][NextBackoff]_vars

----------------------------------------------------------------------------
(* Token refresh *)

\* latest time of a behaviour, in seconds
MaxNow == 4

\* the POST refresh_token of the adapter's class sends
RefreshRequest(prov, rtoken) ==
    CASE prov.cls = "RedditOAuth2Provider" ->
            [fn |-> "refresh_token", method |-> "POST", url |-> token_url(prov),
             data |-> [grant_type |-> "refresh_token",
                       refresh_token |-> rtoken],
             headers |-> ("User-Agent" :> "Oauth2Capture/1.0 by simplecto"),
             auth |-> HTTPBasicAuth(prov)]
      [] OTHER ->
            [fn |-> "refresh_token", method |-> "POST", url |-> token_url(prov),
             data |-> [grant_type |-> "refresh_token",
                       refresh_token |-> rtoken,
                       client_id |-> prov.config.client_id,
                       client_secret |-> prov.config.client_secret],
             headers |-> ("Authorization" :> BasicCredentials(prov))
                         @@ ("Content-Type" :> "application/x-www-form-urlencoded"),
             auth |-> <<>>]

\* the token data of the response refresh_token ends with: {} unless 200
RefreshResult(response) ==
    IF response.status_code # 200 THEN EmptyDict ELSE response.json

\* refresh_token(rtoken) of the adapter's class, the token endpoint
\* answering with responses: the token data returned or the exception
\* raised, the requests sent, the posts and sleeps in their order and the
\* seconds slept.  Reddit's posts once;
\* the others post through retry_with_backoff with its defaults.
refresh_token(prov, rtoken, responses) ==
    LET request == RefreshRequest(prov, rtoken) IN
    IF prov.cls = "RedditOAuth2Provider"
    THEN LET response == Reply(responses, 1) IN
         [raised |-> <<>>, token_data |-> RefreshResult(response),
          calls |-> <<Call(request, response)>>,
          events |-> <<Event("request", response.status_code)>>, slept |-> 0]
    ELSE LET run == retry_with_backoff(responses, default_max_retries,
                                       default_fallback_delays)
             sent == [k \in 1..Len(Requests(run.events)) |->
                         Call(request, Reply(responses, k))]
         IN  [raised |-> run.raised,
              token_data |-> IF run.raised # <<>> THEN EmptyDict
                             ELSE RefreshResult(run.response[1]),
              calls |-> sent,
              events |-> run.events,
              slept |-> Sum(Sleeps(run.events))]

\* the token is refreshed first (a mutation of it: whenever it has an expiry)
NeedsRefresh_any_expiry(oauth_token, t) ==
    oauth_token.expires_at # NoTime

\* the token is refreshed first (a mutation of it: the expiry is not tested
\* for None)
NeedsRefresh_unguarded(oauth_token, t) ==
    oauth_token.expires_at <= t

\* oauth_token.expires_at and oauth_token.expires_at <= timezone.now()
NeedsRefresh(oauth_token, t) ==
    oauth_token.expires_at # NoTime /\ oauth_token.expires_at <= t

\* OAuthToken.is_expired()
is_expired(oauth_token, t) ==
    IF oauth_token.expires_at # NoTime THEN t > oauth_token.expires_at ELSE FALSE

\* what get_valid_token comes to: the value returned or the exception
\* raised, the caller's token object and the table as it leaves them, the
\* requests it sent and the time at its end
Result(raised, returned, token, table, calls, t) ==
    [raised |-> raised, returned |-> returned, token |-> token, rows |-> table,
     calls |-> calls, now |-> t]

\* get_valid_token(oauth_token) at time t.  responses are the token
\* endpoint's answers; info is the dict get_user_info returns, <<>> when it
\* raises.
get_valid_token(prov, table, oauth_token, t, responses, info) ==
    IF ~NeedsRefresh(oauth_token, t)
    THEN Result(<<>>, oauth_token.access_token, oauth_token, table, <<>>, t)
    ELSE
    LET ref == refresh_token(prov, oauth_token.refresh_token, responses)
        token_data == ref.token_data
        t2 == t + ref.slept
    IN
    IF ref.raised # <<>>
    THEN Result(ref.raised, None, oauth_token, table, ref.calls, t2)
    ELSE IF "access_token" \notin DOMAIN token_data
    THEN Result(<<>>, None, oauth_token, table, ref.calls, t2)
    ELSE
    LET fetched == Append(ref.calls,
                          Call(UserInfoRequest(prov, token_data["access_token"]), info))
    IN
    IF info = <<>>
    THEN Result(<<>>, None, oauth_token, table, fetched, t2)
    ELSE
    LET upd == update_token(prov, table, oauth_token, token_data, info[1], t2) IN
    IF ~upd.ok
    THEN Result(<<>>, None, upd.token, table, fetched, t2)
    ELSE Result(<<>>, upd.token.access_token, upd.token, upd.table, fetched, t2)

\* a second of time passes
Tick ==
    /\ now < MaxNow
    /\ now' = now + 1
    /\ last' = [NoRequest EXCEPT !.op = "tick"]
    /\ UNCHANGED <<session, rows, tokenSeq, slugSeq>>

\* a caller fetches the row of a slug and asks the adapter of its provider
\* for a valid token, as social_post does
GetValidToken(slug, responses, info) ==
    \E oauth_token \in rows :
        /\ oauth_token.slug = slug
        /\ LET prov == get_provider(oauth_token.provider)
               r == get_valid_token(prov, rows, oauth_token, now, responses, info)
           IN  /\ r.now <= MaxNow
               /\ rows' = r.rows
               /\ now' = r.now
               /\ last' = [op |-> "get_valid_token",
                           provider |-> oauth_token.provider,
                           GET |-> EmptyDict, user |-> oauth_token.owner,
                           response |-> HttpResponse(<<>>, 0), calls |-> r.calls,
                           slug |-> slug, raised |-> r.raised,
                           returned |-> r.returned, token |-> r.token]
        /\ UNCHANGED <<session, tokenSeq, slugSeq>>

\* the provider whose tokens the refresh behaviours hold
RefreshProvider == "twitter"

\* the token responses of the code exchanges that store the token: one with
\* an expiry and a refresh token, one with neither
StorePayloads ==
    { [access_token |-> "at1", token_type |-> "bearer", expires_in |-> 2,
       refresh_token |-> "rt1"],
      [access_token |-> "at1", token_type |-> "bearer"] }

\* the token endpoint's answers to a refresh: a new token that keeps the
\* refresh token, one that rotates it, one without token_type, a refusal
\* with 200 and with 400, and rate limiting with a negative Retry-After
RefreshResponses ==
    { <<Response(200, EmptyDict,
                 [access_token |-> "at2", expires_in |-> 2, token_type |-> "bearer"])>>,
      <<Response(200, EmptyDict,
                 [access_token |-> "at2", expires_in |-> 2, token_type |-> "bearer",
                  refresh_token |-> "rt2"])>>,
      <<Response(200, EmptyDict, [access_token |-> "at2", expires_in |-> 2])>>,
      <<Response(200, EmptyDict, [error |-> "invalid_grant"])>>,
      <<Response(400, EmptyDict, [error |-> "invalid_grant"])>>,
      <<Response(429, "Retry-After" :> "-1", EmptyDict)>> }

\* get_user_info returns the user's profile, or raises
UserInfoResults == { <<FlowUserInfo>>, <<>> }

NextRefresh ==
    \/ \E td \in StorePayloads :
          Callback(RefreshProvider, [code |-> "c1"], FlowUser, td, FlowUserInfo)
    \/ Tick
    \/ \E r \in rows, rs \in RefreshResponses, info \in UserInfoResults :
          GetValidToken(r.slug, rs, info)

SpecRefresh == Init /\ [][NextRefresh]_vars

----------------------------------------------------------------------------
(* The adapters' methods, as any caller may invoke them *)

\* latest time of a behaviour of the adapters, in seconds
MaxClock == 135

\* the state values and redirect URIs callers pass
AdapterStates == {"s1", "s2"}

AdapterRedirectUris == {CallbackUri("twitter"), "https://example.com/cb"}

\* a token response that grants a new access token
Granted == [access_token |-> "at2", expires_in |-> 2, token_type |-> "bearer"]

\* the token endpoint's answers to a refresh: a grant, a refusal, rate
\* limiting that lasts, and rate limiting that ends, without and with a
\* Retry-After header
AdapterResponses ==
    { <<Response(200, EmptyDict, Granted)>>,
      <<Response(400, EmptyDict, [error |-> "invalid_grant"])>>,
      <<Response(429, EmptyDict, EmptyDict)>>,
      <<Response(429, EmptyDict, EmptyDict), Response(200, EmptyDict, Granted)>>,
      <<Response(429, "Retry-After" :> "15", EmptyDict),
        Response(200, EmptyDict, Granted)>> }

\* provider.get_authorization_url(state, redirect_uri, request)
GetAuthorizationUrl(p, state, redirect_uri) ==
    LET prov == get_provider(p)
        drew == prov.cls = "TwitterOAuth2Provider"
        r == get_authorization_url(prov, state, redirect_uri, session,
                                   generate_code_verifier(tokenSeq + 1))
    IN  /\ drew => tokenSeq < MaxTokens
        /\ session' = r.session
        /\ tokenSeq' = IF drew THEN tokenSeq + 1 ELSE tokenSeq
        /\ last' = [op |-> "get_authorization_url", provider |-> p,
                    state |-> state, redirect_uri |-> redirect_uri,
                    url |-> r.url, calls |-> <<>>]
        /\ UNCHANGED <<rows, now, slugSeq>>

\* provider.exchange_code_for_token(code, redirect_uri, request)
ExchangeCodeForToken(p, code, redirect_uri, token_data) ==
    LET prov == get_provider(p) IN
    /\ last' = [op |-> "exchange_code_for_token", provider |-> p,
                calls |-> <<Call(ExchangeRequest(prov, code, redirect_uri, session),
                                 token_data)>>,
                returned |-> token_data]
    /\ UNCHANGED <<session, rows, now, tokenSeq, slugSeq>>

\* provider.get_user_info(access_token)
GetUserInfo(p, access_token, user_info) ==
    LET prov == get_provider(p) IN
    /\ last' = [op |-> "get_user_info", provider |-> p,
                calls |-> <<Call(UserInfoRequest(prov, access_token), user_info)>>,
                returned |-> user_info]
    /\ UNCHANGED <<session, rows, now, tokenSeq, slugSeq>>

\* provider.refresh_token(rtoken); the time slept passes
RefreshToken(p, rtoken, responses) ==
    LET prov == get_provider(p)
        r == refresh_token(prov, rtoken, responses)
    IN  /\ now + r.slept <= MaxClock
        /\ now' = now + r.slept
        /\ last' = [op |-> "refresh_token", provider |-> p,
                    responses |-> responses, raised |-> r.raised,
                    returned |-> r.token_data, calls |-> r.calls,
                    events |-> r.events]
        /\ UNCHANGED <<session, rows, tokenSeq, slugSeq>>

NextAdapters ==
    \/ \E p \in ProviderNames, s \in AdapterStates, u \in AdapterRedirectUris :
          GetAuthorizationUrl(p, s, u)
    \/ \E p \in ProviderNames, c \in Codes :
          ExchangeCodeForToken(p, c, CallbackUri(p), Granted)
    \/ \E p \in ProviderNames : GetUserInfo(p, "at1", FlowUserInfo)
    \/ \E p \in ProviderNames, rs \in AdapterResponses : RefreshToken(p, "rt1", rs)

SpecAdapters == Init /\ [][NextAdapters]_vars

----------------------------------------------------------------------------
(* The token store shared by several owners *)

\* request.user of a request without a signed-in user
AnonymousUser == "AnonymousUser"

\* reverse_lazy("oauth2_capture:list")
success_url == Url("/oauth2_capture/", <<>>)

\* LoginRequiredMixin.handle_no_permission: the redirect to the login page
redirect_to_login(path) ==
    redirect(Url("/accounts/login/", << <<"next", path>> >>))

\* the URL of path("<slug:slug>/revoke/")
RevokePath(slug) == "/oauth2_capture/" \o slug \o "/revoke/"

\* DeleteOAuthTokenView.get_queryset (a mutation of it: every row)
get_queryset_all(table, user) == table

\* DeleteOAuthTokenView.get_queryset: the rows owned by the current user
get_queryset(table, user) == {r \in table : r.owner = user}

\* DeleteOAuthTokenView handling <slug>/revoke/: the response and the
\* table it leaves
DeleteOAuthTokenView(table, slug, user, method) ==
    IF user = AnonymousUser
    THEN [response |-> redirect_to_login(RevokePath(slug)), rows |-> table]
    ELSE
    LET found == {r \in get_queryset(table, user) : r.slug = slug} IN
    IF found = {}
    THEN [response |-> HttpResponse(<<"Not Found">>, 404), rows |-> table]
    ELSE IF method = "POST"
    THEN [response |-> redirect(success_url), rows |-> table \ found]
    ELSE [response |-> HttpResponse(<<"oauthtoken_confirm_delete.html">>, 200),
          rows |-> table]

\* GET or POST /<slug>/revoke/
Revoke(slug, user, method) ==
    LET r == DeleteOAuthTokenView(rows, slug, user, method) IN
    /\ rows' = r.rows
    /\ last' = [op |-> "revoke", provider |-> "", GET |-> EmptyDict,
                user |-> user, response |-> r.response, calls |-> <<>>,
                slug |-> slug, method |-> method]
    /\ UNCHANGED <<session, now, tokenSeq, slugSeq>>

MaxStoreNow == 1

\* the signed-in users
StoreOwners == {"alice", "bob"}

\* the external accounts the provider reports
StoreUserInfos == {FlowUserInfo, [id |-> "u2", name |-> "n2"]}

\* the slugs a request may name
StoreSlugs == {"slug" \o ToString(i) : i \in 1..MaxRows}

\* the token response of the code exchanges: it expires after a second
StoreGrant ==
    [access_token |-> "at1", token_type |-> "bearer", expires_in |-> 1,
     refresh_token |-> "rt1"]

\* the token endpoint's answer to a refresh: a new token
StoreResponses ==
    { <<Response(200, EmptyDict,
                 [access_token |-> "at2", expires_in |-> 1, token_type |-> "bearer"])>> }

\* a second of time passes, within the time the store is watched
StoreTick == now < MaxStoreNow /\ Tick

NextStore ==
    \/ \E u \in StoreOwners, info \in StoreUserInfos :
          Callback(RefreshProvider, [code |-> "c1"], u, StoreGrant, info)
    \/ StoreTick
    \/ \E r \in rows, rs \in StoreResponses, info \in StoreUserInfos :
          /\ info.id = r.user_id
          /\ now <= MaxStoreNow
          /\ GetValidToken(r.slug, rs, <<info>>)
    \/ \E slug \in StoreSlugs, u \in StoreOwners \cup {AnonymousUser},
          m \in {"GET", "POST"} : Revoke(slug, u, m)

SpecStore == Init /\ [][NextStore]_vars

----------------------------------------------------------------------------
(* The expiry a refresh leaves *)

\* the token endpoint's answers to a refresh: a new token with a lifetime,
\* one that rotates the refresh token, and one without expires_in
ExpiryResponses ==
    { <<Response(200, EmptyDict,
                 [access_token |-> "at2", expires_in |-> 2, token_type |-> "bearer"])>>,
      <<Response(200, EmptyDict,
                 [access_token |-> "at2", expires_in |-> 2, token_type |-> "bearer",
                  refresh_token |-> "rt2"])>>,
      <<Response(200, EmptyDict,
                 [access_token |-> "at3", token_type |-> "bearer"])>> }

NextExpiry ==
    \/ \E td \in StorePayloads :
          Callback(RefreshProvider, [code |-> "c1"], FlowUser, td, FlowUserInfo)
    \/ Tick
    \/ \E r \in rows, rs \in ExpiryResponses :
          GetValidToken(r.slug, rs, <<FlowUserInfo>>)

SpecExpiry == Init /\ [][NextExpiry]_vars

----------------------------------------------------------------------------
(* The demo application: posting with a stored token *)

\* the providers a request to social_post may name
DemoProviders == {"twitter", "github", "myspace"}

\* the functions <provider>_post of demo.views
PostFunctions == {"twitter_post", "linkedin_post", "reddit_post"}

\* getattr(current_module, f"{provider}_post", None)
post_function(provider) ==
    IF provider \o "_post" \in PostFunctions THEN provider \o "_post" ELSE None

\* the result of social_post: its response, the table and the time it
\* leaves, the calls get_valid_token made, the calls of the post function
\* and the messages shown to the user
DemoResult(response, r, posts, msgs) ==
    [response |-> response, rows |-> r.rows, now |-> r.now, calls |-> r.calls,
     raised |-> r.raised, returned |-> r.returned, posts |-> posts,
     messages |-> msgs]

\* the token social_post hands to the post function
PostArgument(token, oa2) == oa2

\* get_valid_token as social_post calls it: on the row of the slug, with
\* the adapter of the provider the URL names; nothing when the view does
\* not get that far
ValidToken(table, provider, slug, t, responses, info) ==
    LET found == {r \in table : r.slug = slug}
        prov == get_provider(provider)
    IN  IF found = {} \/ ~prov.ok
        THEN Result(<<>>, None, <<>>, table, <<>>, t)
        ELSE get_valid_token(prov, table, CHOOSE r \in found : TRUE, t,
                             responses, info)

\* social_post(request, provider, slug), request.user = user; valid is
\* what the call of get_valid_token comes to, posted what the post
\* function returns, <<>> when it raises
social_post(table, provider, slug, user, method, valid, posted) ==
    LET none == [valid EXCEPT !.calls = <<>>]
        fn == post_function(provider)
    IN
    IF method # "POST"
    THEN DemoResult(HttpResponse(<<"Method Not Allowed">>, 405), none, <<>>, <<>>)
    ELSE IF user = AnonymousUser
    THEN DemoResult(redirect_to_login("/" \o provider \o "/" \o slug \o "/"),
                    none, <<>>, <<>>)
    ELSE IF \A r \in table : r.slug # slug
    THEN DemoResult(HttpResponse(<<"Not Found">>, 404), none, <<>>, <<>>)
    ELSE IF ~get_provider(provider).ok
    THEN DemoResult(ServerError("ValueError"), none, <<>>, <<>>)
    ELSE IF valid.raised # <<>>
    THEN DemoResult(ServerError(valid.raised[1]), valid, <<>>, <<>>)
    ELSE IF fn = None
    THEN DemoResult(redirect(Url("/", <<>>)), valid, <<>>,
                    << <<"error", "Unsupported provider: ", provider>> >>)
    ELSE IF posted = <<>>
    THEN DemoResult(ServerError("TwitterError"), valid,
                    <<Call([fn |-> fn, token |-> valid.token.slug,
                            oauth_token |-> PostArgument(valid.token, valid.returned)],
                           posted)>>,
                    <<>>)
    ELSE DemoResult(redirect(Url("/", <<>>)), valid,
                    <<Call([fn |-> fn, token |-> valid.token.slug,
                            oauth_token |-> PostArgument(valid.token, valid.returned)],
                           posted)>>,
                    << <<"success", "Tweet created: ", posted[1]>> >>)

\* POST /<provider>/<slug>/ of the demo
SocialPost(provider, slug, user, method, responses, info, posted) ==
    \E valid \in {IF method = "POST" /\ user # AnonymousUser
                  THEN ValidToken(rows, provider, slug, now, responses, info)
                  ELSE Result(<<>>, None, <<>>, rows, <<>>, now)} :
    \E r \in {social_post(rows, provider, slug, user, method, valid, posted)} :
        /\ r.now <= MaxNow
        /\ rows' = r.rows
        /\ now' = r.now
        /\ last' = [op |-> "social_post", provider |-> provider,
                    GET |-> EmptyDict, user |-> user, response |-> r.response,
                    calls |-> r.calls, slug |-> slug, method |-> method,
                    raised |-> r.raised, returned |-> r.returned,
                    posts |-> r.posts, messages |-> r.messages]
        /\ UNCHANGED <<session, tokenSeq, slugSeq>>

\* the token endpoint's answers to a refresh: a new token, a refusal
DemoResponses ==
    { <<Response(200, EmptyDict,
                 [access_token |-> "at2", expires_in |-> 2, token_type |-> "bearer"])>>,
      <<Response(400, EmptyDict, [error |-> "invalid_grant"])>> }

\* what the post function returns: the URL of the post; or it raises
PostResults == { <<"https://twitter.com/user/status/1">>, <<>> }

NextDemo ==
    \/ \E td \in StorePayloads :
          Callback(RefreshProvider, [code |-> "c1"], FlowUser, td, FlowUserInfo)
    \/ Tick
    \/ \E p \in DemoProviders, slug \in StoreSlugs,
          u \in {FlowUser, AnonymousUser}, m \in {"GET", "POST"},
          rs \in DemoResponses, posted \in PostResults :
          SocialPost(p, slug, u, m, rs, <<FlowUserInfo>>, posted)

SpecDemo == Init /\ [][NextDemo]_vars

----------------------------------------------------------------------------
(* Two callers of get_valid_token at once.  Each caller holds its own      *)
(* OAuthToken object; nothing in get_valid_token or update_token locks the *)
(* row, so the callers' requests and writes interleave at every call that  *)
(* waits for the network or the database.                                  *)

MaxIssued == 3

Callers == {"c1", "c2"}

\* the token response of the k-th refresh the provider grants
IssuedToken(k) ==
    [access_token |-> "at" \o ToString(k + 1),
     refresh_token |-> "rt" \o ToString(k + 1),
     expires_in |-> 2, token_type |-> "bearer"]

\* a caller that has not started
Idle == [pc |-> "idle", token |-> <<>>, token_data |-> <<>>, returned |-> None]

\* the row the callback of the code exchange stored at time 0
StoredRows ==
    oauth2_callback(EmptyDict, {}, RefreshProvider, [code |-> "c1"], FlowUser,
                    [access_token |-> "at1", token_type |-> "bearer",
                     expires_in |-> 2, refresh_token |-> "rt1"],
                    FlowUserInfo, 1, 0).rows

InitRace ==
    /\ session = EmptyDict
    /\ rows = StoredRows
    /\ now = 2
    /\ tokenSeq = 0
    /\ slugSeq = 1
    /\ last = [op |-> "race", issued |-> 0, frames |-> [c \in Callers |-> Idle]]

\* the frame of caller c becomes f
SetFrame(c, f) == last' = [last EXCEPT !.frames[c] = f]

\* caller c loads the row and enters get_valid_token: a token that needs
\* no refresh is returned at once
LoadToken(c) ==
    /\ last.frames[c].pc = "idle"
    /\ \E oauth_token \in rows :
          IF NeedsRefresh(oauth_token, now)
          THEN SetFrame(c, [Idle EXCEPT !.pc = "expired", !.token = <<oauth_token>>])
          ELSE SetFrame(c, [Idle EXCEPT !.pc = "done", !.token = <<oauth_token>>,
                                        !.returned = oauth_token.access_token])
    /\ UNCHANGED <<session, rows, now, tokenSeq, slugSeq>>

\* caller c posts the refresh of the refresh token its object holds; the
\* provider grants its next token
PostRefresh(c) ==
    LET f == last.frames[c]
        prov == get_provider(f.token[1].provider)
        k == last.issued + 1
        ref == refresh_token(prov, f.token[1].refresh_token,
                             <<Response(200, EmptyDict, IssuedToken(k))>>)
    IN  /\ f.pc = "expired"
        /\ last.issued < MaxIssued
        /\ last' = [last EXCEPT !.issued = k,
                                !.frames[c] = [f EXCEPT !.pc = "refreshed",
                                                        !.token_data = <<ref.token_data>>]]
        /\ UNCHANGED <<session, rows, now, tokenSeq, slugSeq>>

\* caller c fetches the user info and update_token assigns the response to
\* its object and saves it
UpdateToken(c) ==
    LET f == last.frames[c]
        prov == get_provider(f.token[1].provider)
        upd == update_token(prov, rows, f.token[1], f.token_data[1], FlowUserInfo, now)
    IN  /\ f.pc = "refreshed"
        /\ rows' = upd.table
        /\ SetFrame(c, [f EXCEPT !.pc = "done", !.token = <<upd.token>>,
                                 !.returned = IF upd.ok THEN upd.token.access_token
                                              ELSE None])
        /\ UNCHANGED <<session, now, tokenSeq, slugSeq>>

\* caller c starts over with a new request
NextRequest(c) ==
    /\ last.frames[c].pc = "done"
    /\ SetFrame(c, Idle)
    /\ UNCHANGED <<session, rows, now, tokenSeq, slugSeq>>

\* a second passes while the callers wait
Elapse ==
    /\ now < MaxNow
    /\ now' = now + 1
    /\ UNCHANGED <<session, rows, tokenSeq, slugSeq, last>>

NextRace ==
    \/ \E c \in Callers : LoadToken(c)
    \/ \E c \in Callers : PostRefresh(c)
    \/ \E c \in Callers : UpdateToken(c)
    \/ \E c \in Callers : NextRequest(c)
    \/ Elapse

SpecRace == InitRace /\ [][NextRace]_vars

----------------------------------------------------------------------------
(* Reading a handled request *)

\* The outcome a response stands for, by its status and text.  The texts of
\* InvalidState, AuthorizationDenied and MissingAuthorizationCode are those
\* the view tests look for.
Outcome(response) ==
    LET text == IF Len(response.content) > 0 THEN response.content[1] ELSE "" IN
    CASE response.status = 200 -> "Success"
      [] response.status = 302 -> "Redirect"
      [] response.status = 400 /\ text = "Unsupported provider: " -> "UnsupportedProvider"
      [] response.status = 400 /\ text = "Failed to connect " -> "TokenExchangeFailed"
      [] response.status = 400 /\ text = "Invalid OAuth state" -> "InvalidState"
      [] response.status = 400 /\ text = "Authorization denied" -> "AuthorizationDenied"
      [] response.status = 400 /\ text = "No authorization code received"
            -> "MissingAuthorizationCode"
      [] OTHER -> "Error"

\* the outbound calls of one kind among a handler's calls
CallsOf(calls, fn) ==
    {i \in DOMAIN calls : calls[i].request.fn = fn}

Exchanged(l) == CallsOf(l.calls, "exchange_code_for_token") # {}

FetchedUserInfo(l) == CallsOf(l.calls, "get_user_info") # {}

\* l is a callback to one of the six providers
ResolvableCallback(l) == l.op = "callback" /\ l.provider \in ProviderNames

\* the session holds no state for the provider, or another one than the
\* query presents
StateMismatch(sess, l) ==
    \/ "state" \notin DOMAIN l.GET
    \/ (l.provider \o "_oauth_state") \notin DOMAIN sess
    \/ l.GET["state"] # sess[l.provider \o "_oauth_state"]

\* the token response of the callback's code exchange
ExchangeReply(l) == l.calls[1].reply

----------------------------------------------------------------------------
(* Claims *)

\* C1: a callback to a resolvable provider with no error parameter whose
\* state is absent or differs from the state stored in the session is
\* answered 400 InvalidState, and the code is not exchanged.
C1_MismatchRejected ==
    [][ (/\ ResolvableCallback(last')
         /\ "error" \notin DOMAIN last'.GET
         /\ StateMismatch(session, last'))
        => (/\ Outcome(last'.response) = "InvalidState"
            /\ ~Exchanged(last')) ]_vars

\* C2: after a callback to a resolvable provider the session holds no
\* state for that provider.
C2_StateCleared ==
    ResolvableCallback(last)
        => (last.provider \o "_oauth_state") \notin DOMAIN session

\* C3: a callback for a provider whose session holds no stored state is
\* answered InvalidState whatever it presents; and a callback that goes on
\* to exchange the code presented the stored state and removes it, so that
\* no issued state is accepted twice.
C3_StateSingleUse ==
    [][ ResolvableCallback(last') =>
          /\ (last'.provider \o "_oauth_state") \notin DOMAIN session
                => Outcome(last'.response) = "InvalidState"
          /\ Exchanged(last')
                => /\ ~StateMismatch(session, last')
                   /\ (last'.provider \o "_oauth_state") \notin DOMAIN session' ]_vars

\* C4: a callback that carries an error parameter is answered 400
\* AuthorizationDenied, with the provider's error_description when it gave
\* one; the code is not exchanged and the stored state is removed.
C4_DenialReported ==
    (ResolvableCallback(last) /\ "error" \in DOMAIN last.GET)
        => /\ Outcome(last.response) = "AuthorizationDenied"
           /\ "error_description" \in DOMAIN last.GET
                => \E i \in DOMAIN last.response.content :
                        last.response.content[i] = last.GET["error_description"]
           /\ ~Exchanged(last)
           /\ (last.provider \o "_oauth_state") \notin DOMAIN session

\* C5: a callback with no error, the stored state and no code is answered
\* 400 MissingAuthorizationCode, and no code is exchanged.
C5_MissingCodeRejected ==
    [][ (/\ ResolvableCallback(last')
         /\ "error" \notin DOMAIN last'.GET
         /\ ~StateMismatch(session, last')
         /\ "code" \notin DOMAIN last'.GET)
        => (/\ Outcome(last'.response) = "MissingAuthorizationCode"
            /\ ~Exchanged(last')) ]_vars

\* the rows of the account (provider, user_id) that belong to owner
RowsOf(table, provider, user_id, owner) ==
    {r \in table : r.provider = provider /\ r.user_id = user_id /\ r.owner = owner}

\* C6: after initiate stored state S, a callback with state S and a code
\* that the provider exchanges for an access token is answered with
\* success, exchanged that code, fetched the user info with the token, leaves
\* exactly one row for (provider, user id, owner), which holds the token,
\* and leaves no state in the session.
C6_EndToEnd ==
    [][ (/\ ResolvableCallback(last')
         /\ "error" \notin DOMAIN last'.GET
         /\ ~StateMismatch(session, last')
         /\ "code" \in DOMAIN last'.GET
         /\ Exchanged(last')
         /\ Truthy(Get(ExchangeReply(last'), "access_token"))
         /\ FetchedUserInfo(last')
         /\ "id" \in DOMAIN last'.calls[2].reply)
        => (/\ Outcome(last'.response) = "Success"
            /\ last'.calls[1].request.data.code = last'.GET["code"]
            /\ \E r \in rows' :
                  /\ RowsOf(rows', last'.provider, last'.calls[2].reply.id,
                            last'.user) = {r}
                  /\ r.access_token = ExchangeReply(last').access_token
            /\ (last'.provider \o "_oauth_state") \notin DOMAIN session') ]_vars

\* C7: when the token response of the code exchange holds no access_token,
\* the callback is answered 400 TokenExchangeFailed, fetches no user info
\* and leaves every row as it was.
C7_ExchangeFailed ==
    [][ (/\ ResolvableCallback(last')
         /\ Exchanged(last')
         /\ "access_token" \notin DOMAIN ExchangeReply(last'))
        => (/\ Outcome(last'.response) = "TokenExchangeFailed"
            /\ ~FetchedUserInfo(last')
            /\ rows' = rows) ]_vars

\* C7 happens: a callback whose exchange gave no token, with a row stored
C7_Witness ==
    /\ ResolvableCallback(last)
    /\ Exchanged(last)
    /\ "access_token" \notin DOMAIN ExchangeReply(last)
    /\ Outcome(last.response) = "TokenExchangeFailed"
    /\ rows # {}

\* the adapter class of each supported provider
ExpectedClass(name) ==
    CASE name = "twitter"   -> "TwitterOAuth2Provider"
      [] name = "linkedin"  -> "LinkedInOAuth2Provider"
      [] name = "github"    -> "GitHubOAuth2Provider"
      [] name = "reddit"    -> "RedditOAuth2Provider"
      [] name = "pinterest" -> "PinterestOAuth2Provider"
      [] name = "facebook"  -> "FacebookOAuth2Provider"

\* C8: get_provider raises the unsupported-provider error for every name
\* other than the six, and returns the adapter of the provider for each of
\* the six.
C8_Factory ==
    last.op = "get_provider" =>
        LET name == last.provider
            got == last.calls[1].reply
        IN  IF name \in {"twitter", "linkedin", "github", "reddit", "pinterest",
                         "facebook"}
            THEN /\ got.ok
                 /\ got.cls = ExpectedClass(name)
                 /\ got.provider_name = name
            ELSE /\ ~got.ok
                 /\ got.error = <<"Unsupported provider: ", name>>

\* C8 happens: the factory was asked for reddit
C8_Witness ==
    /\ last.op = "get_provider"
    /\ last.provider = "reddit"
    /\ last.calls[1].reply.ok

\* C9: for a name that does not resolve, initiate and callback answer 400
\* and do nothing else: the session and the rows stay as they were and no
\* outbound call is made.
C9_UnsupportedNoEffect ==
    [][ (last'.op \in {"initiate", "callback"} /\ last'.provider \notin ProviderNames)
        => (/\ last'.response.status = 400
            /\ Outcome(last'.response) = "UnsupportedProvider"
            /\ session' = session
            /\ rows' = rows
            /\ last'.calls = <<>>) ]_vars

\* C9 happens: an unsupported name was requested while the session held a
\* state and the table a row
C9_Witness ==
    /\ last.op \in {"initiate", "callback"}
    /\ last.provider \notin ProviderNames
    /\ session # EmptyDict
    /\ rows # {}

\* C10: after initiate succeeds for a provider, the session's state for it
\* is the state parameter of the URL redirected to, and it is a value that
\* was not issued before (so a later initiate replaces the earlier value).
C10_StateStored ==
    [][ (last'.op = "initiate" /\ last'.provider \in ProviderNames)
        => (/\ Outcome(last'.response) = "Redirect"
            /\ (last'.provider \o "_oauth_state") \in DOMAIN session'
            /\ session'[last'.provider \o "_oauth_state"]
                  = QueryParam(last'.response.location, "state")
            /\ session'[last'.provider \o "_oauth_state"] \notin IssuedStates
            /\ (last'.provider \o "_oauth_state") \in DOMAIN session
                  => session'[last'.provider \o "_oauth_state"]
                        # session[last'.provider \o "_oauth_state"]) ]_vars

\* C10 happens: a second initiate for one provider replaced its state
C10_Witness ==
    /\ last.op = "initiate"
    /\ last.provider = "twitter"
    /\ tokenSeq = 2
    /\ DOMAIN session = {"twitter_oauth_state", "code_verifier"}
    /\ session["twitter_oauth_state"] = Token(2)
    /\ session["code_verifier"] = generate_code_verifier(2)

----------------------------------------------------------------------------
(* Reading a get_valid_token call *)

\* l is a get_valid_token call on the token object read from row r
CalledOn(l, r) == l.op = "get_valid_token" /\ l.slug = r.slug

\* the call posted a refresh request
Refreshed(l) == CallsOf(l.calls, "refresh_token") # {}

\* the response refresh_token ended with: that of its last request
RefreshReply(l) == l.calls[Cardinality(CallsOf(l.calls, "refresh_token"))].reply

\* refresh_token returned this token data
RefreshReturned(l) == RefreshResult(RefreshReply(l))

\* what get_user_info returned to the call: <<>> when it raised
UserInfoReply(l) == l.calls[Len(l.calls)].reply

\* the token's expiry is in the past, or now
Expired(r, t) == r.expires_at # NoTime /\ r.expires_at <= t

\* TokenRefreshError(message, provider=provider)
TokenRefreshError(provider) == <<"TokenRefreshError", provider>>

\* the row of r's slug is in the table with r's access token, refresh token
\* and expiry
Retained(table, r) ==
    \E r2 \in table : /\ r2.slug = r.slug
                      /\ r2.access_token = r.access_token
                      /\ r2.refresh_token = r.refresh_token
                      /\ r2.expires_at = r.expires_at

\* C11: get_valid_token on a token whose expires_at is in the future
\* returns the stored access_token, sends no request (no refresh, no user
\* info fetch) and leaves the token object and every row as they were.
C11_ValidUntouched ==
    [][ \A r \in rows :
          (CalledOn(last', r) /\ r.expires_at # NoTime /\ r.expires_at > now)
          => (/\ last'.raised = <<>>
              /\ last'.returned = r.access_token
              /\ last'.calls = <<>>
              /\ last'.token = r
              /\ rows' = rows) ]_vars

\* C11 happens: a token refreshed earlier, valid now, was asked for
C11_Witness ==
    /\ last.op = "get_valid_token"
    /\ last.calls = <<>>
    /\ last.returned = "at2"
    /\ \E r \in rows : /\ r.slug = last.slug
                       /\ r.access_token = "at2"
                       /\ r.expires_at > now

\* C12: get_valid_token on an expired token whose refresh returns token
\* data without access_token raises TokenRefreshError carrying the token's
\* provider, and the row stays, with its access token, refresh token and
\* expiry unchanged.
C12_RefreshFailureRaises ==
    [][ \A r \in rows :
          (/\ CalledOn(last', r) /\ Expired(r, now)
           /\ Refreshed(last')
           /\ Returns(RefreshReply(last'))
           /\ "access_token" \notin DOMAIN RefreshReturned(last'))
          => (/\ last'.raised = TokenRefreshError(r.provider)
              /\ Retained(rows', r)) ]_vars

\* C13: get_valid_token on an expired token whose refresh returns an
\* access_token A and expires_in N (the user info being fetched without
\* error) stores A and the expiry now + N in the row and returns A.
C13_RefreshUpdates ==
    [][ \A r \in rows :
          (/\ CalledOn(last', r) /\ Expired(r, now)
           /\ Refreshed(last')
           /\ Returns(RefreshReply(last'))
           /\ "access_token" \in DOMAIN RefreshReturned(last')
           /\ "expires_in" \in DOMAIN RefreshReturned(last')
           /\ UserInfoReply(last') # <<>>)
          => (/\ last'.raised = <<>>
              /\ last'.returned = RefreshReturned(last').access_token
              /\ \E r2 \in rows' :
                    /\ r2.slug = r.slug
                    /\ r2.access_token = RefreshReturned(last').access_token
                    /\ r2.expires_at = now' + RefreshReturned(last').expires_in) ]_vars

\* C14: when the refresh returned an access token and then fetching the
\* user info or saving the updated token raises, get_valid_token raises
\* TokenRefreshError carrying the provider, and the row keeps its access
\* token, refresh token and expiry.
C14_UpdateErrorWrapped ==
    [][ \A r \in rows :
          (/\ CalledOn(last', r) /\ Expired(r, now)
           /\ Refreshed(last')
           /\ Returns(RefreshReply(last'))
           /\ "access_token" \in DOMAIN RefreshReturned(last')
           /\ \/ UserInfoReply(last') = <<>>
              \/ ~update_token(get_provider(r.provider), rows, r,
                               RefreshReturned(last'), UserInfoReply(last')[1],
                               now').ok)
          => (/\ last'.raised = TokenRefreshError(r.provider)
              /\ Retained(rows', r)) ]_vars

\* the token response of the update a callback or a refresh made
UpdateData(l) ==
    IF l.op = "callback" THEN ExchangeReply(l) ELSE RefreshReturned(l)

\* C15: a callback or a refresh changes the refresh_token of a stored row
\* only to the refresh_token of its token response: when the response holds
\* none, the row's refresh_token is what it was.
C15_RefreshTokenKept ==
    [][ \A r \in rows, r2 \in rows' :
          (/\ last'.op \in {"callback", "get_valid_token"}
           /\ r2.id = r.id
           /\ r2.refresh_token # r.refresh_token)
          => (/\ "refresh_token" \in DOMAIN UpdateData(last')
              /\ r2.refresh_token = UpdateData(last').refresh_token) ]_vars

\* C15 happens: a refresh whose response held no refresh_token was stored,
\* and the row has the refresh token of the code exchange
C15_Witness ==
    /\ last.op = "get_valid_token"
    /\ Refreshed(last)
    /\ "refresh_token" \notin DOMAIN RefreshReturned(last)
    /\ last.returned = "at2"
    /\ \E r \in rows : /\ r.slug = last.slug
                       /\ r.access_token = "at2"
                       /\ r.refresh_token = "rt1"

\* C16: a token with no expires_at is not expired at any time, and
\* get_valid_token on it returns its access_token and posts no refresh, at
\* every time and at every call.
C16_NoExpiryNeverRefreshed ==
    [][ \A r \in rows :
          (CalledOn(last', r) /\ r.expires_at = NoTime)
          => (/\ ~is_expired(r, now)
              /\ last'.raised = <<>>
              /\ last'.returned = r.access_token
              /\ ~Refreshed(last')
              /\ last'.calls = <<>>
              /\ rows' = rows) ]_vars

\* C16 happens: a token with no expiry was asked for after time had passed
C16_Witness ==
    /\ last.op = "get_valid_token"
    /\ now >= 2
    /\ last.returned = "at1"
    /\ \E r \in rows : r.slug = last.slug /\ r.expires_at = NoTime

----------------------------------------------------------------------------
(* Reading a retry_with_backoff run *)

\* l is a finished run of retry_with_backoff
Ran(l) == l.op = "retry_with_backoff"

\* the response the k-th invocation of request_func got
Got(l, k) == Reply(l.responses, k)

\* int() takes the response's Retry-After header
IntegerRetryAfter(response) ==
    /\ "Retry-After" \in DOMAIN response.headers
    /\ int(response.headers["Retry-After"]).ok

\* the table's delay for the attempt of 0-based index k
Fallback(l, k) ==
    l.fallback_delays[(IF k <= Len(l.fallback_delays) - 1
                       THEN k ELSE Len(l.fallback_delays) - 1) + 1]

\* C17: with max_retries >= 1 a run invokes request_func at most
\* max_retries times; when every response is 429 it invokes it exactly
\* max_retries times and returns the last 429 response, raising nothing.
C17_AttemptsBounded ==
    (Ran(last) /\ last.max_retries >= 1)
        => /\ Len(Requests(last.events)) <= last.max_retries
           /\ (\A k \in 1..last.max_retries : Got(last, k).status_code = 429)
                => /\ Len(Requests(last.events)) = last.max_retries
                   /\ last.raised = <<>>
                   /\ last.response = <<Got(last, last.max_retries)>>

\* C18: the invocation that gets a response other than 429 is the last
\* thing the run does: the run returns that response, invokes nothing and
\* sleeps nothing after it; when the first response is not 429 the run is
\* that one invocation.
C18_ReturnsFirstNon429 ==
    Ran(last) =>
        /\ \A i \in DOMAIN last.events :
              (last.events[i].kind = "request" /\ last.events[i].n # 429)
                => /\ i = Len(last.events)
                   /\ last.raised = <<>>
                   /\ last.response = <<Got(last, Len(Requests(last.events)))>>
                   /\ last.response[1].status_code = last.events[i].n
        /\ (last.max_retries >= 1 /\ Got(last, 1).status_code # 429)
                => /\ last.events = <<Event("request", Got(last, 1).status_code)>>
                   /\ Sleeps(last.events) = <<>>

\* C18 happens: a run got 429, then 200, and the server had more to say
C18_Witness ==
    /\ Ran(last)
    /\ last.max_retries >= 3
    /\ Len(last.responses) >= 3
    /\ Requests(last.events) = <<429, 200>>
    /\ Got(last, 3).status_code = 429
    /\ Len(Sleeps(last.events)) = 1

\* C19: the sleep after a 429 response of the attempt of 0-based index k
\* whose Retry-After int() does not take is
\* fallback_delays[min(k, len(fallback_delays) - 1)]; with the default
\* arguments and the responses 429, 429, 429, 200 without headers the run
\* makes 4 invocations and sleeps 5, 10, 20.
C19_FallbackDelays ==
    Ran(last) =>
        /\ \A j \in DOMAIN Sleeps(last.events) :
              ~IntegerRetryAfter(Got(last, j))
                => Sleeps(last.events)[j] = Fallback(last, j - 1)
        /\ (/\ last.max_retries = default_max_retries
            /\ last.fallback_delays = default_fallback_delays
            /\ Len(last.responses) = 4
            /\ \A k \in 1..3 : Got(last, k) = Response(429, EmptyDict, EmptyDict)
            /\ Got(last, 4).status_code = 200)
                => /\ Requests(last.events) = <<429, 429, 429, 200>>
                   /\ Sleeps(last.events) = <<5, 10, 20>>

\* C19 happens: a run with a table of two delays slept three times
C19_Witness ==
    /\ Ran(last)
    /\ last.fallback_delays = <<3, 6>>
    /\ Requests(last.events) = <<429, 429, 429, 200>>
    /\ \A k \in 1..3 : ~IntegerRetryAfter(Got(last, k))
    /\ Sleeps(last.events) = <<3, 6, 6>>

\* C20: after every 429 response that has a Retry-After header the run
\* sleeps: the header's number of seconds when int() takes the header, the
\* table's delay for the attempt otherwise.
C20_RetryAfterHonoured ==
    Ran(last) =>
        \A k \in DOMAIN Requests(last.events) :
            (Got(last, k).status_code = 429
             /\ "Retry-After" \in DOMAIN Got(last, k).headers)
                => /\ k \in DOMAIN Sleeps(last.events)
                   /\ Sleeps(last.events)[k] =
                        IF IntegerRetryAfter(Got(last, k))
                        THEN int(Got(last, k).headers["Retry-After"]).value
                        ELSE Fallback(last, k - 1)

----------------------------------------------------------------------------
(* Reading a call of an adapter's method *)

\* the custom User-Agent of the Reddit adapter
RedditUserAgent == "Oauth2Capture/1.0 by simplecto"

\* how many of the first i events of a run are requests
RequestsUpTo(events, i) ==
    Cardinality({j \in 1..i : events[j].kind = "request"})

\* the parameters of a URL's query, as a dict
QueryDict(url) ==
    [k \in {url.query[i][1] : i \in DOMAIN url.query} |-> QueryParam(url, k)]

\* the challenge of a verifier by the S256 method
S256(verifier) == "S256(" \o verifier \o ")"

\* C21: whatever the provider, a 429 response to a refresh POST that is
\* not the last attempt allowed is followed by a sleep and then by another
\* refresh POST, before refresh_token returns.
C21_RefreshRetried ==
    last.op = "refresh_token" =>
        \A i \in DOMAIN last.events :
            (/\ last.events[i].kind = "request"
             /\ last.events[i].n = 429
             /\ RequestsUpTo(last.events, i) < default_max_retries)
            => (/\ i + 2 <= Len(last.events)
                /\ last.events[i + 1].kind = "sleep"
                /\ last.events[i + 2].kind = "request"
                /\ Len(last.calls) > RequestsUpTo(last.events, i))

\* C22: when the last response to a refresh has a status other than 200,
\* refresh_token raises nothing and returns {}, and get_valid_token raises
\* TokenRefreshError carrying the provider and leaves the row with its
\* access token, refresh token and expiry.
C22_EmptyResultIsFailure ==
    [][ \A r \in rows :
          (/\ CalledOn(last', r) /\ Expired(r, now)
           /\ Refreshed(last')
           /\ RefreshReply(last').status_code # 200)
          => (/\ last'.raised # <<"ValueError">>
              /\ RefreshReturned(last') = EmptyDict
              /\ last'.raised = TokenRefreshError(r.provider)
              /\ Retained(rows', r)) ]_vars

\* C23: every request the Reddit adapter sends (code exchange, token
\* refresh, user info) carries the custom User-Agent header.
C23_RedditUserAgent ==
    (/\ last.op \in {"exchange_code_for_token", "refresh_token", "get_user_info"}
     /\ last.provider = "reddit")
        => \A i \in DOMAIN last.calls :
              /\ "User-Agent" \in DOMAIN last.calls[i].request.headers
              /\ last.calls[i].request.headers["User-Agent"] = RedditUserAgent

\* C24: the query of the authorization URL of every provider, state and
\* redirect URI holds client_id, redirect_uri, response_type=code, the
\* state and the configured scope; Twitter's holds code_challenge and
\* code_challenge_method=S256 besides, Reddit's duration=permanent, and
\* no URL holds anything else.
C24_AuthorizationUrl ==
    last.op = "get_authorization_url" =>
        LET q == QueryDict(last.url)
            common == {"client_id", "redirect_uri", "response_type", "state", "scope"}
        IN  /\ DOMAIN q = common \cup
                  (CASE last.provider = "twitter"
                            -> {"code_challenge", "code_challenge_method"}
                     [] last.provider = "reddit" -> {"duration"}
                     [] OTHER -> {})
            /\ Len(last.url.query) = Cardinality(DOMAIN q)
            /\ q["client_id"] = OAUTH2_CONFIG[last.provider].client_id
            /\ q["redirect_uri"] = last.redirect_uri
            /\ q["response_type"] = "code"
            /\ q["state"] = last.state
            /\ q["scope"] = OAUTH2_CONFIG[last.provider].scope
            /\ last.provider = "twitter"
                  => /\ q["code_challenge_method"] = "S256"
                     /\ q["code_challenge"] # None
            /\ last.provider = "reddit" => q["duration"] = "permanent"

\* C24 happens: Reddit's URL was built for the second state and the
\* second redirect URI
C24_Witness ==
    /\ last.op = "get_authorization_url"
    /\ last.provider = "reddit"
    /\ last.state = "s2"
    /\ last.redirect_uri = "https://example.com/cb"
    /\ QueryParam(last.url, "duration") = "permanent"
    /\ QueryParam(last.url, "state") = "s2"

\* C25: Twitter's get_authorization_url stores a fresh verifier in the
\* session under code_verifier and sends its S256 challenge in the URL;
\* nothing else writes that key; and Twitter's code exchange submits the
\* verifier the session holds, so that of the latest URL built.
C25_VerifierRoundTrip ==
    [][ /\ (last'.op = "get_authorization_url" /\ last'.provider = "twitter")
            => /\ "code_verifier" \in DOMAIN session'
               /\ Get(session, "code_verifier") # session'["code_verifier"]
               /\ QueryParam(last'.url, "code_challenge")
                     = S256(session'["code_verifier"])
        /\ ~(last'.op = "get_authorization_url" /\ last'.provider = "twitter")
            => Get(session', "code_verifier") = Get(session, "code_verifier")
        /\ (last'.op = "exchange_code_for_token" /\ last'.provider = "twitter")
            => last'.calls[1].request.data.code_verifier
                  = Get(session, "code_verifier") ]_vars

\* C25 happens: after two URLs were built, the code exchange submitted the
\* verifier of the second
C25_Witness ==
    /\ last.op = "exchange_code_for_token"
    /\ last.provider = "twitter"
    /\ tokenSeq = 2
    /\ session["code_verifier"] = generate_code_verifier(2)
    /\ last.calls[1].request.data.code_verifier = generate_code_verifier(2)

----------------------------------------------------------------------------
(* Reading the shared store *)

\* the row of table that has the primary key of r, as a set
RowOf(table, r) == {x \in table : x.id = r.id}

\* the callback l stored a token for the account the row r holds
Reauthorized(l, r) ==
    /\ l.op = "callback"
    /\ l.response.status = 200
    /\ FetchedUserInfo(l)
    /\ r.provider = l.provider
    /\ r.owner = l.user
    /\ r.user_id = Get(UserInfoReply(l), "id")

\* the call l of get_valid_token refreshed the expired row r and stored
\* the new token
RefreshStored(l, r, t) ==
    /\ CalledOn(l, r)
    /\ Expired(r, t)
    /\ l.raised = <<>>
    /\ l.returned # None

\* C26: after any sequence of callbacks, refreshes and revocations by any
\* owners, the store holds at most one row for each pair of provider and
\* external user id.
C26_OneRowPerAccount ==
    \A r1 \in rows, r2 \in rows :
        (r1.provider = r2.provider /\ r1.user_id = r2.user_id) => r1 = r2

\* C26 happens: a second owner's callback for an account already stored was
\* refused, the store still holding the first owner's row alone
C26_Witness ==
    /\ last.op = "callback"
    /\ last.user = "bob"
    /\ last.response.status = 500
    /\ Get(UserInfoReply(last), "id") = "u1"
    /\ \E r \in rows : r.owner = "alice" /\ r.user_id = "u1" /\ rows = {r}

\* C27: a successful refresh, and a re-authorization of an account already
\* connected, change the existing row in place: the number of rows is the
\* same, the row keeps its provider, user_id, owner, slug and created_at,
\* and every other row is as it was.
C27_UpdatedInPlace ==
    [][ \A r \in rows :
          (Reauthorized(last', r) \/ RefreshStored(last', r, now))
          => /\ Cardinality(rows') = Cardinality(rows)
             /\ rows' \ RowOf(rows', r) = rows \ {r}
             /\ \E x \in RowOf(rows', r) :
                   /\ x.provider = r.provider
                   /\ x.user_id = r.user_id
                   /\ x.owner = r.owner
                   /\ x.slug = r.slug
                   /\ x.created_at = r.created_at ]_vars

\* C27 happens: with two rows stored, the older one was refreshed a second
\* after it was created and holds the new access token under its old slug
C27_Witness ==
    /\ last.op = "get_valid_token"
    /\ last.returned = "at2"
    /\ Cardinality(rows) = 2
    /\ \E r \in rows :
          /\ r.slug = last.slug
          /\ r.access_token = "at2"
          /\ r.created_at = 0
          /\ now = 1

\* C28: a row leaves the store only by a revoke request of its owner for
\* its slug; a revoke request for a slug owned by another user deletes
\* nothing and leaves every row unchanged.
C28_RevokeByOwnerOnly ==
    [][ /\ \A r \in rows :
              RowOf(rows', r) = {}
              => /\ last'.op = "revoke"
                 /\ last'.user = r.owner
                 /\ last'.slug = r.slug
        /\ (/\ last'.op = "revoke"
            /\ \E r \in rows : r.slug = last'.slug /\ r.owner # last'.user)
           => rows' = rows ]_vars

\* C28 happens: a POST to revoke a slug of another owner's row was answered
\* 404, the row still stored
C28_Witness ==
    /\ last.op = "revoke"
    /\ last.method = "POST"
    /\ last.user = "bob"
    /\ last.response.status = 404
    /\ \E r \in rows : r.slug = last.slug /\ r.owner = "alice"

\* a step leaves no row with an expiry it has set to an instant that is
\* not in the future, and makes a valid row expired only by time passing
NoExpiryInPast ==
    /\ \A r \in rows : \A x \in RowOf(rows', r) :
          /\ (~Expired(r, now) /\ Expired(x, now'))
                => (now' > now /\ x.expires_at = r.expires_at)
          /\ x.expires_at # r.expires_at => x.expires_at > now'
    /\ \A x \in rows' :
          (RowOf(rows, x) = {} /\ x.expires_at # NoTime) => x.expires_at > now'

----------------------------------------------------------------------------
(* Reading two callers at once *)

\* both callers have refreshed the token and have returned
BothRefreshed ==
    /\ last.op = "race"
    /\ \A c \in Callers :
          last.frames[c].pc = "done" /\ last.frames[c].token_data # <<>>

\* C30: once two get_valid_token calls that both refreshed the same
\* expired token have finished, the stored access token and refresh token
\* are those of the refresh response the provider issued last.
C30_NoLostUpdate ==
    BothRefreshed =>
        \A r \in rows :
            /\ r.access_token = IssuedToken(last.issued).access_token
            /\ r.refresh_token = IssuedToken(last.issued).refresh_token

----------------------------------------------------------------------------
(* Reading a request to the demo *)

\* social_post reached get_valid_token with a stored token and a post
\* function exists for the provider
Posting(l) ==
    /\ l.op = "social_post"
    /\ l.method = "POST"
    /\ l.user # AnonymousUser
    /\ l.provider \in ProviderNames
    /\ post_function(l.provider) # None

\* the reconnect-required prompt of a provider
ReauthNeeded(provider) == HttpResponse(<<"reauth_needed.html", provider>>, 200)

\* C31: when the refresh inside social_post fails, the response is the
\* reconnect-required prompt of the provider with status 200 and the post
\* function is not called; when get_valid_token returns a token, the post
\* function is called exactly once, with that token.
C31_ReconnectPrompt ==
    [][ \A r \in rows :
          (Posting(last') /\ r.slug = last'.slug)
          => /\ (Expired(r, now) /\ Refreshed(last')
                 /\ "access_token" \notin DOMAIN RefreshReturned(last'))
                => /\ last'.response.status = 200
                   /\ last'.response = ReauthNeeded(last'.provider)
                   /\ last'.posts = <<>>
             /\ (last'.raised = <<>> /\ last'.returned # None)
                => /\ Len(last'.posts) = 1
                   /\ last'.posts[1].request.oauth_token = last'.returned ]_vars

----------------------------------------------------------------------------
(* The callback's checks and what they guard *)

\* the typed failures of a callback
TypedFailures ==
    {"AuthorizationDenied", "InvalidState", "MissingAuthorizationCode",
     "TokenExchangeFailed"}

\* C32: the checks of a callback run in the order error, state, code: a
\* callback with an error parameter and an absent or mismatching state is
\* answered AuthorizationDenied, and one with no error, a mismatching
\* state and no code is answered InvalidState.
C32_CheckOrder ==
    [][ (ResolvableCallback(last') /\ StateMismatch(session, last'))
        => /\ "error" \in DOMAIN last'.GET
                => Outcome(last'.response) = "AuthorizationDenied"
           /\ ("error" \notin DOMAIN last'.GET /\ "code" \notin DOMAIN last'.GET)
                => Outcome(last'.response) = "InvalidState" ]_vars

\* C33: initiate and callback for a provider neither write nor remove the
\* stored state of another provider, and a callback that presents a state
\* stored for another provider, not its own, does not go on to the code
\* exchange.
C33_StateProviderScoped ==
    [][ /\ last'.op \in {"initiate", "callback"}
            => \A p \in ProviderNames \ {last'.provider} :
                  Get(session', StateKey(p)) = Get(session, StateKey(p))
        /\ (/\ ResolvableCallback(last')
            /\ "state" \in DOMAIN last'.GET
            /\ Get(session, StateKey(last'.provider)) # last'.GET["state"]
            /\ \E p \in ProviderNames \ {last'.provider} :
                  Get(session, StateKey(p)) = last'.GET["state"])
           => (~Exchanged(last') /\ Outcome(last'.response) = "InvalidState") ]_vars

----------------------------------------------------------------------------
(* Sleeps, expiry and the caller's object *)

\* C35: a run of retry_with_backoff that returns a response has slept
\* once less than it has invoked request_func: it sleeps between attempts
\* only, and returns the 429 of the last attempt allowed without sleeping.
C35_SleepsBetweenAttempts ==
    (Ran(last) /\ last.raised = <<>> /\ last.response # <<>>)
        => Len(Sleeps(last.events)) = Len(Requests(last.events)) - 1

\* the call of get_valid_token in l returned an access token
ReturnedToken(l) == l.raised = <<>> /\ l.returned # None

\* the row is valid and a further call would not refresh it
ValidAfter(table, l, r, t) ==
    /\ \A x \in RowOf(table, r) : ~Expired(x, t)
    /\ ~NeedsRefresh(l.token, t)

C39_ExpiryChecksAgree ==
    [][ \A r \in rows :
          CalledOn(last', r) => (Refreshed(last') <=> is_expired(r, now)) ]_vars

\* C40: after a call of get_valid_token that returned no token, the object
\* the caller passed in equals the stored row, field for field.
C40_ObjectMatchesRow ==
    [][ \A r \in rows :
          (CalledOn(last', r) /\ ~ReturnedToken(last'))
          => RowOf(rows', r) = {last'.token} ]_vars

\* C37: every callback ends in success or in a typed 400 failure, and the
\* callback of one owner for an account stored under another owner raises
\* no storage error and leaves that owner's row as it was.
C37_CallbackNeverCrashes ==
    [][ last'.op = "callback"
        => /\ Outcome(last'.response)
                 \in {"Success", "UnsupportedProvider"} \cup TypedFailures
           /\ \A r \in rows : r.owner # last'.user => r \in rows' ]_vars

\* C38: after a Twitter callback that exchanged the code, the session
\* holds no code_verifier.
C38_VerifierSingleUse ==
    (/\ last.op = "callback"
     /\ last.provider = "twitter"
     /\ Exchanged(last))
        => "code_verifier" \notin DOMAIN session

====
